---- MODULE Spec2Model ----
(***************************************************************************)
(* Resource accounting, placement and health-driven state management of    *)
(* the data-center backend (FastAPI routers + Celery tasks over one        *)
(* transactional record store).                                            *)
(*                                                                         *)
(* Every db.commit() of the source is a transaction boundary: what lies    *)
(* between two commits of one handler is one step of the model, and other  *)
(* processes (HTTP workers, Celery workers) may run between two steps.     *)
(***************************************************************************)
EXTENDS Integers, Sequences, FiniteSets, Bags, TLC

VARIABLES
    bms,        \* table baremetals: id -> row
    nextBm,     \* next fresh baremetal id
    vms,        \* table vms: id -> row
    nextVm,     \* next fresh vm id
    pools,      \* table resource_pool: rows in insertion order
    alerts,     \* table alerts: rows in insertion order
    queue,      \* Celery queue: bag of update_resource_pool / create_vm_task / delete_vm_task
    dispatchQ,  \* Celery queue: alert ids handed to send_alert_notification.delay
    workers,    \* Celery workers taking queued tasks: the task each one is running
    sweeps,     \* Celery workers running a periodic health sweep
    reqs,       \* HTTP create_vm requests between their checks and their commit
    notifications,  \* table notifications: rows in insertion order
    settings,   \* app.core.config.settings: which integration fields are set
    disks,      \* /shared-storage/vm-storage/instances: vm_id -> the disk.qcow2 of its directory
    down        \* the VMs whose guest has stopped responding

vars == <<bms, nextBm, vms, nextVm, pools, alerts, queue, dispatchQ, workers, sweeps, reqs,
          notifications, settings, disks, down>>

\* everything but the shared storage
backend == <<bms, nextBm, vms, nextVm, pools, alerts, queue, dispatchQ, workers, sweeps, reqs,
             notifications, settings, down>>

---------------------------------------------------------------------------
\* Bounds of the model

MaxBm == 2
MaxVm == 1
MaxAlerts == 2
MaxQueue == 2
MaxWorkers == 1
MaxSweeps == 2
MaxReq == 1
MaxNotif == 2
MaxDisks == 2

\* Input domains: (cpu_cores, memory_gb) of a baremetal, (cpu_cores, memory_mb) of a VM request
BmSizes == {<<8, 32>>}
VmReqs == {<<0, 0>>, <<0, 1024>>, <<4, 16384>>}
\* (cpu_cores, memory_mb) an operator sets on an existing VM
VmSizes == {<<4, 16384>>, <<16, 65536>>}
\* status an operator sets on a baremetal
BmStatusSet == {"active", "maintenance"}

\* settings an operator deploys: Slack alone, JIRA alone, both, and Slack
\* with a JIRA section that lacks its token
Configs ==
    {[SLACK_WEBHOOK_URL |-> c[1], JIRA_URL |-> c[2], JIRA_USERNAME |-> c[3], JIRA_API_TOKEN |-> c[4]] :
        c \in {<<TRUE, FALSE, FALSE, FALSE>>, <<FALSE, TRUE, TRUE, TRUE>>,
               <<TRUE, TRUE, TRUE, TRUE>>, <<TRUE, TRUE, TRUE, FALSE>>}}
\* what the POST of a channel task comes back with: an HTTP status code, or
\* 0 for an exception (connection error, timeout of a hanging endpoint)
Responses == {200, 201, 500, 0}
\* alert ids an operator dispatches by hand: the first alert, and an id that
\* no alert has while the fleet has one baremetal
DispatchIds == {1, 2}

Workers == 1..MaxWorkers
Sweeps == 1..MaxSweeps
Reqs == 1..MaxReq

---------------------------------------------------------------------------
\* Rows

BmStatus == {"active", "inactive", "maintenance", "failed"}

VmStatus == {"creating", "running", "stopped", "failed", "deleting"}

\* A Baremetal row: the columns of the ORM class that the engine reads.
Baremetal(cpu, mem) ==
    [cpu_cores |-> cpu, memory_gb |-> mem, status |-> "active", last_health_check |-> FALSE]

\* A VM row; status defaults to 'creating'.
VM(bm, cpu, mem) ==
    [baremetal_id |-> bm, cpu_cores |-> cpu, memory_mb |-> mem, status |-> "creating"]

Alert(rtype, rid, atype, sev) ==
    [resource_type |-> rtype, resource_id |-> rid, alert_type |-> atype,
     severity |-> sev, is_resolved |-> FALSE]

\* Celery task messages
UrpTask == [name |-> "update_resource_pool", arg |-> 0]
CreateVmTask(v) == [name |-> "create_vm_task", arg |-> v]
DeleteVmTask(v) == [name |-> "delete_vm_task", arg |-> v]

Enqueue(q, t) == q (+) SetToBag({t})
Dequeue(q, t) == q (-) SetToBag({t})
QueueLen == BagCardinality(queue)

SlackTask(a) == [name |-> "send_slack_notification", arg |-> a]
JiraTask(a) == [name |-> "send_jira_notification", arg |-> a]

NoResp == -1

Idle == [task |-> "idle", found |-> FALSE, tot |-> <<0, 0, 0, 0>>, nid |-> 0, resp |-> NoResp]

NoSweep == [task |-> "idle", pc |-> "", todo |-> {}, cur |-> 0]

NoReq == [outcome |-> "none", cpu |-> 0, mem |-> 0, bm |-> 0]

\* The defaults of Settings: every integration field is the empty string.
NoSettings ==
    [SLACK_WEBHOOK_URL |-> FALSE, JIRA_URL |-> FALSE, JIRA_USERNAME |-> FALSE, JIRA_API_TOKEN |-> FALSE]

\* A Notification row as the channel tasks create it; error_message "" is NULL.
Notification(a, ch) ==
    [alert_id |-> a, channel |-> ch, status |-> "pending", error_message |-> ""]

---------------------------------------------------------------------------
\* update_resource_pool: the sums and the snapshot

RECURSIVE SumField(_, _, _)
SumField(rows, S, attr) ==
    IF S = {} THEN 0
    ELSE LET x == CHOOSE y \in S : TRUE
         IN rows[x][attr] + SumField(rows, S \ {x}, attr)

\* sum(bm.<attr> for bm in baremetals): raises AttributeError as soon as one
\* row is visited and the ORM class has no such column.
AttrSum(rows, S, attr) ==
    IF \E x \in S : attr \notin DOMAIN rows[x]
    THEN [ok |-> FALSE, val |-> 0]
    ELSE [ok |-> TRUE, val |-> SumField(rows, S, attr)]

ActiveBms == {b \in DOMAIN bms : bms[b].status = "active"}

used_cpu == 0
used_memory == 0
used_storage == 0
used_iops == 0

AvailableOffByOne(total, used) == total - used + 1

Available(total, used) == total - used

PoolRow(tot) ==
    [total_cpu_cores |-> tot[1], total_memory_gb |-> tot[2],
     total_storage_gb |-> tot[3], total_iops |-> tot[4],
     available_cpu_cores |-> Available(tot[1], used_cpu),
     available_memory_gb |-> Available(tot[2], used_memory),
     available_storage_gb |-> Available(tot[3], used_storage),
     available_iops |-> Available(tot[4], used_iops)]

\* The task is taken from the queue, queries the active baremetals and sums
\* them, then queries the pool row.  An exception is caught, rolled back and
\* the task returns.
urp_read(w) ==
    /\ workers[w].task = "idle"
    /\ BagIn(UrpTask, queue)
    /\ queue' = Dequeue(queue, UrpTask)
    /\ LET total_cpu == AttrSum(bms, ActiveBms, "cpu_cores")
           total_memory == AttrSum(bms, ActiveBms, "memory_gb")
           total_storage == AttrSum(bms, ActiveBms, "storage_gb")
           total_iops == AttrSum(bms, ActiveBms, "iops")
       IN IF total_cpu.ok /\ total_memory.ok /\ total_storage.ok /\ total_iops.ok
          THEN workers' = [workers EXCEPT ![w] =
                   [Idle EXCEPT !.task = "update_resource_pool",
                                !.found = (Len(pools) > 0),
                                !.tot = <<total_cpu.val, total_memory.val,
                                          total_storage.val, total_iops.val>>]]
          ELSE workers' = workers
    /\ UNCHANGED <<bms, nextBm, vms, nextVm, pools, alerts, dispatchQ, sweeps, reqs, notifications, settings, disks, down>>

urp_commit_appends(w) ==
    /\ workers[w].task = "update_resource_pool"
    /\ pools' = Append(pools, PoolRow(workers[w].tot))
    /\ workers' = [workers EXCEPT ![w] = Idle]
    /\ UNCHANGED <<bms, nextBm, vms, nextVm, alerts, queue, dispatchQ, sweeps, reqs, notifications, settings, disks, down>>

\* pool = first row, or a new row; the fields are assigned and committed.
urp_commit(w) ==
    /\ workers[w].task = "update_resource_pool"
    /\ pools' = IF workers[w].found
                THEN [pools EXCEPT ![1] = PoolRow(workers[w].tot)]
                ELSE Append(pools, PoolRow(workers[w].tot))
    /\ workers' = [workers EXCEPT ![w] = Idle]
    /\ UNCHANGED <<bms, nextBm, vms, nextVm, alerts, queue, dispatchQ, sweeps, reqs, notifications, settings, disks, down>>

---------------------------------------------------------------------------
\* Baremetal router

create_baremetal(cpu, mem) ==
    /\ nextBm <= MaxBm
    /\ QueueLen < MaxQueue
    /\ bms' = (nextBm :> Baremetal(cpu, mem)) @@ bms
    /\ nextBm' = nextBm + 1
    /\ queue' = Enqueue(queue, UrpTask)
    /\ UNCHANGED <<vms, nextVm, pools, alerts, dispatchQ, workers, sweeps, reqs, notifications, settings, disks, down>>

\* st = "" / size = <<>> stand for a field left None in BaremetalUpdate.
update_baremetal(b, st, size) ==
    /\ b \in DOMAIN bms
    /\ QueueLen < MaxQueue
    /\ bms' = [bms EXCEPT ![b] =
                 [@ EXCEPT !.cpu_cores = IF size = <<>> THEN @ ELSE size[1],
                           !.memory_gb = IF size = <<>> THEN @ ELSE size[2],
                           !.status = IF st = "" THEN @ ELSE st]]
    /\ queue' = Enqueue(queue, UrpTask)
    /\ UNCHANGED <<nextBm, vms, nextVm, pools, alerts, dispatchQ, workers, sweeps, reqs, notifications, settings, disks, down>>

VmsOfRunning(b) == {v \in DOMAIN vms : vms[v].baremetal_id = b /\ vms[v].status = "running"}

\* baremetal.vms: the VM rows whose baremetal_id is b
VmsOf(b) == {v \in DOMAIN vms : vms[v].baremetal_id = b}

\* Rejected with 400 (nothing changes) while baremetal.vms is not empty.
delete_baremetal(b) ==
    /\ b \in DOMAIN bms
    /\ VmsOf(b) = {}
    /\ QueueLen < MaxQueue
    /\ bms' = [x \in DOMAIN bms \ {b} |-> bms[x]]
    /\ queue' = Enqueue(queue, UrpTask)
    /\ UNCHANGED <<nextBm, vms, nextVm, pools, alerts, dispatchQ, workers, sweeps, reqs, notifications, settings, disks, down>>

---------------------------------------------------------------------------
\* VM router

\* .filter(status == 'active', cpu_cores >= vm.cpu_cores, memory_gb >= vm.memory_mb / 1024)
SuitableNoStatus(cpu, mem) ==
    {b \in DOMAIN bms : bms[b].cpu_cores >= cpu /\ bms[b].memory_gb * 1024 >= mem}

Suitable(cpu, mem) ==
    {b \in DOMAIN bms : /\ bms[b].status = "active"
                        /\ bms[b].cpu_cores >= cpu
                        /\ bms[b].memory_gb * 1024 >= mem}

\* pool.available_cpu_cores < vm.cpu_cores
LedgerCpuShortInclusive(pool, cpu) == pool.available_cpu_cores <= cpu

LedgerCpuShort(pool, cpu) == pool.available_cpu_cores < cpu

\* pool.available_memory_gb < vm.memory_mb / 1024 (true division)
LedgerMemoryShort(pool, mem) == pool.available_memory_gb * 1024 < mem

\* The response of create_vm to a valid request (well-formed address, fresh
\* hostname, existing image) up to the choice of the baremetal: .first() of
\* an unordered query returns any row of the result.  Every outcome but
\* "Selected" is an HTTPException raised before anything is written.
PlacementOutcomes(cpu, mem) ==
    IF Len(pools) = 0 THEN {[outcome |-> "PoolNotInitialized", cpu |-> cpu, mem |-> mem, bm |-> 0]}
    ELSE IF LedgerCpuShort(pools[1], cpu)
         THEN {[outcome |-> "InsufficientCpu", cpu |-> cpu, mem |-> mem, bm |-> 0]}
    ELSE IF LedgerMemoryShort(pools[1], mem)
         THEN {[outcome |-> "InsufficientMemory", cpu |-> cpu, mem |-> mem, bm |-> 0]}
    ELSE IF Suitable(cpu, mem) = {}
         THEN {[outcome |-> "NoSuitableBaremetal", cpu |-> cpu, mem |-> mem, bm |-> 0]}
    ELSE {[outcome |-> "Selected", cpu |-> cpu, mem |-> mem, bm |-> b] : b \in Suitable(cpu, mem)}

Selecting == {r \in Reqs : reqs[r] # NoReq}

\* create_vm up to the choice of the baremetal; a request that raises leaves
\* the store as it is.
create_vm_select(r, cpu, mem) ==
    /\ reqs[r] = NoReq
    /\ nextVm + Cardinality(Selecting) <= MaxVm
    /\ \E o \in PlacementOutcomes(cpu, mem) :
           /\ o.outcome = "Selected"
           /\ reqs' = [reqs EXCEPT ![r] = o]
    /\ UNCHANGED <<bms, nextBm, vms, nextVm, pools, alerts, queue, dispatchQ, workers, sweeps, notifications, settings, disks, down>>

\* The VM row is inserted and committed (the foreign key on baremetal_id
\* rejects the insert when the baremetal row is gone), then create_vm_task
\* and update_resource_pool are enqueued.
create_vm_commit(r) ==
    /\ reqs[r] # NoReq
    /\ reqs' = [reqs EXCEPT ![r] = NoReq]
    /\ IF reqs[r].bm \in DOMAIN bms
       THEN /\ QueueLen + 2 <= MaxQueue
            /\ vms' = (nextVm :> VM(reqs[r].bm, reqs[r].cpu, reqs[r].mem)) @@ vms
            /\ nextVm' = nextVm + 1
            /\ queue' = Enqueue(Enqueue(queue, CreateVmTask(nextVm)), UrpTask)
       ELSE UNCHANGED <<vms, nextVm, queue>>
    /\ UNCHANGED <<bms, nextBm, pools, alerts, dispatchQ, workers, sweeps, notifications, settings, disks, down>>

\* size = <<>> / st = "" stand for a field left None in VMUpdate.
update_vm(v, size, st) ==
    /\ v \in DOMAIN vms
    /\ vms' = [vms EXCEPT ![v] =
                 [@ EXCEPT !.cpu_cores = IF size = <<>> THEN @ ELSE size[1],
                           !.memory_mb = IF size = <<>> THEN @ ELSE size[2],
                           !.status = IF st = "" THEN @ ELSE st]]
    /\ UNCHANGED <<bms, nextBm, nextVm, pools, alerts, queue, dispatchQ, workers, sweeps, reqs, notifications, settings, disks, down>>

delete_vm(v) ==
    /\ v \in DOMAIN vms
    /\ QueueLen + 2 <= MaxQueue
    /\ vms' = [vms EXCEPT ![v].status = "deleting"]
    /\ queue' = Enqueue(Enqueue(queue, DeleteVmTask(v)), UrpTask)
    /\ UNCHANGED <<bms, nextBm, nextVm, pools, alerts, dispatchQ, workers, sweeps, reqs, notifications, settings, disks, down>>

start_vm(v) ==
    /\ v \in DOMAIN vms
    /\ vms' = [vms EXCEPT ![v].status = "running"]
    /\ UNCHANGED <<bms, nextBm, nextVm, pools, alerts, queue, dispatchQ, workers, sweeps, reqs, notifications, settings, disks, down>>

stop_vm(v) ==
    /\ v \in DOMAIN vms
    /\ vms' = [vms EXCEPT ![v].status = "stopped"]
    /\ UNCHANGED <<bms, nextBm, nextVm, pools, alerts, queue, dispatchQ, workers, sweeps, reqs, notifications, settings, disks, down>>

---------------------------------------------------------------------------
\* VM tasks

\* The simulated provisioning cannot raise: the row ends 'running' unless the
\* VM or its baremetal is gone.  (The image row is never deleted.)
create_vm_task(w, v) ==
    /\ workers[w].task = "idle"
    /\ BagIn(CreateVmTask(v), queue)
    /\ queue' = Dequeue(queue, CreateVmTask(v))
    /\ vms' = IF v \notin DOMAIN vms THEN vms
              ELSE IF vms[v].baremetal_id \notin DOMAIN bms
                   THEN [vms EXCEPT ![v].status = "failed"]
              ELSE [vms EXCEPT ![v].status = "running"]
    /\ UNCHANGED <<bms, nextBm, nextVm, pools, alerts, dispatchQ, workers, sweeps, reqs, notifications, settings, disks, down>>

\* The provisioning block of create_vm_task raises (the provisioning is a
\* placeholder in the source; what can raise in it is the database access):
\* the except branch sets the row 'failed' and commits.
create_vm_task_raises(w, v) ==
    /\ workers[w].task = "idle"
    /\ BagIn(CreateVmTask(v), queue)
    /\ v \in DOMAIN vms
    /\ vms[v].baremetal_id \in DOMAIN bms
    /\ Len(alerts) < MaxAlerts
    /\ queue' = Dequeue(queue, CreateVmTask(v))
    /\ vms' = [vms EXCEPT ![v].status = "failed"]
    /\ workers' = [workers EXCEPT ![w] = [Idle EXCEPT !.task = "create_vm_task", !.nid = v]]
    /\ UNCHANGED <<bms, nextBm, nextVm, pools, alerts, dispatchQ, sweeps, reqs, notifications, settings, disks, down>>

\* The second commit of the except branch: the alert row, then the dispatch.
create_vm_task_alert(w) ==
    /\ workers[w].task = "create_vm_task"
    /\ alerts' = Append(alerts, Alert("vm", workers[w].nid, "vm_creation_failed", "high"))
    /\ dispatchQ' = dispatchQ \cup {Len(alerts) + 1}
    /\ workers' = [workers EXCEPT ![w] = Idle]
    /\ UNCHANGED <<bms, nextBm, vms, nextVm, pools, queue, sweeps, reqs, notifications, settings, disks, down>>

\* The worker process running create_vm_task is killed between the two
\* commits of the except branch.
create_vm_task_crash(w) ==
    /\ workers[w].task = "create_vm_task"
    /\ workers' = [workers EXCEPT ![w] = Idle]
    /\ UNCHANGED <<bms, nextBm, vms, nextVm, pools, alerts, queue, dispatchQ, sweeps, reqs, notifications, settings, disks, down>>

delete_vm_task_keeps_row(w, v) ==
    /\ workers[w].task = "idle"
    /\ BagIn(DeleteVmTask(v), queue)
    /\ queue' = Dequeue(queue, DeleteVmTask(v))
    /\ vms' = IF v \notin DOMAIN vms \/ vms[v].baremetal_id \notin DOMAIN bms THEN vms
              ELSE [vms EXCEPT ![v].status = "deleting"]
    /\ UNCHANGED <<bms, nextBm, nextVm, pools, alerts, dispatchQ, workers, sweeps, reqs, notifications, settings, disks, down>>

\* The row is set to 'deleting' and then deleted; the delete cannot raise.
delete_vm_task(w, v) ==
    /\ workers[w].task = "idle"
    /\ BagIn(DeleteVmTask(v), queue)
    /\ queue' = Dequeue(queue, DeleteVmTask(v))
    /\ vms' = IF v \notin DOMAIN vms \/ vms[v].baremetal_id \notin DOMAIN bms THEN vms
              ELSE [x \in DOMAIN vms \ {v} |-> vms[x]]
    /\ UNCHANGED <<bms, nextBm, nextVm, pools, alerts, dispatchQ, workers, sweeps, reqs, notifications, settings, disks, down>>

---------------------------------------------------------------------------
\* Health monitor

\* The guest of a running VM stops responding: what check_vm_health_status
\* is documented to look for (process gone, no answer to ping).
guest_stops(v) ==
    /\ v \in DOMAIN vms
    /\ vms[v].status = "running"
    /\ v \notin down
    /\ down' = down \cup {v}
    /\ UNCHANGED <<bms, nextBm, vms, nextVm, pools, alerts, queue, dispatchQ, workers, sweeps, reqs,
                   notifications, settings, disks>>

\* check_vm_health_status(vm): the simplified implementation returns True.
check_vm_health_status(v) == TRUE

\* The periodic task starts and queries the active baremetals.
cbh_start(k) ==
    /\ sweeps[k].task = "idle"
    /\ sweeps' = [sweeps EXCEPT ![k] =
           [NoSweep EXCEPT !.task = "check_baremetal_health", !.pc = "probe", !.todo = ActiveBms]]
    /\ UNCHANGED <<bms, nextBm, vms, nextVm, pools, alerts, queue, dispatchQ, workers, reqs, notifications, settings, disks, down>>

cbh_probe_heals(k, b, is_healthy) ==
    /\ sweeps[k].task = "check_baremetal_health"
    /\ sweeps[k].pc = "probe"
    /\ b \in sweeps[k].todo
    /\ is_healthy \/ Len(alerts) < MaxAlerts
    /\ IF b \notin DOMAIN bms
       THEN /\ bms' = bms
            /\ sweeps' = [sweeps EXCEPT ![k] = NoSweep]
       ELSE IF is_healthy
       THEN /\ bms' = [bms EXCEPT ![b].last_health_check = TRUE, ![b].status = "active"]
            /\ sweeps' = [sweeps EXCEPT ![k].todo = @ \ {b}]
       ELSE /\ bms' = [bms EXCEPT ![b].status = "failed"]
            /\ sweeps' = [sweeps EXCEPT ![k].todo = @ \ {b}, ![k].pc = "alert", ![k].cur = b]
    /\ UNCHANGED <<nextBm, vms, nextVm, pools, alerts, queue, dispatchQ, workers, reqs, notifications, settings, disks, down>>

\* One iteration up to its first commit.  is_healthy is the result of
\* check_server_health (a TCP connect: the environment decides).  A row that
\* was deleted since the query raises when it is refreshed or updated; the
\* handler of the iteration formats baremetal.hostname, which has to be
\* refreshed too and raises again, out of the loop: the outer handler logs
\* and the task returns with the rest of its list unvisited.
cbh_probe(k, b, is_healthy) ==
    /\ sweeps[k].task = "check_baremetal_health"
    /\ sweeps[k].pc = "probe"
    /\ b \in sweeps[k].todo
    /\ is_healthy \/ Len(alerts) < MaxAlerts
    /\ IF b \notin DOMAIN bms
       THEN /\ bms' = bms
            /\ sweeps' = [sweeps EXCEPT ![k] = NoSweep]
       ELSE IF is_healthy
       THEN /\ bms' = [bms EXCEPT ![b].last_health_check = TRUE]
            /\ sweeps' = [sweeps EXCEPT ![k].todo = @ \ {b}]
       ELSE /\ bms' = [bms EXCEPT ![b].status = "failed"]
            /\ sweeps' = [sweeps EXCEPT ![k].todo = @ \ {b}, ![k].pc = "alert", ![k].cur = b]
    /\ UNCHANGED <<nextBm, vms, nextVm, pools, alerts, queue, dispatchQ, workers, reqs, notifications, settings, disks, down>>

\* The second commit of a failing iteration: the alert row, then the dispatch.
cbh_alert(k) ==
    /\ sweeps[k].task = "check_baremetal_health"
    /\ sweeps[k].pc = "alert"
    /\ alerts' = Append(alerts, Alert("baremetal", sweeps[k].cur, "server_down", "critical"))
    /\ dispatchQ' = dispatchQ \cup {Len(alerts) + 1}
    /\ sweeps' = [sweeps EXCEPT ![k].pc = "probe", ![k].cur = 0]
    /\ UNCHANGED <<bms, nextBm, vms, nextVm, pools, queue, workers, reqs, notifications, settings, disks, down>>

cvh_start(k) ==
    /\ sweeps[k].task = "idle"
    /\ sweeps' = [sweeps EXCEPT ![k] =
           [NoSweep EXCEPT !.task = "check_vm_health", !.pc = "probe",
                           !.todo = {v \in DOMAIN vms : vms[v].status = "running"}]]
    /\ UNCHANGED <<bms, nextBm, vms, nextVm, pools, alerts, queue, dispatchQ, workers, reqs, notifications, settings, disks, down>>

cvh_probe(k, v) ==
    /\ sweeps[k].task = "check_vm_health"
    /\ sweeps[k].pc = "probe"
    /\ v \in sweeps[k].todo
    /\ IF v \in DOMAIN vms /\ ~check_vm_health_status(v)
       THEN /\ vms' = [vms EXCEPT ![v].status = "failed"]
            /\ sweeps' = [sweeps EXCEPT ![k].todo = @ \ {v}, ![k].pc = "alert", ![k].cur = v]
       ELSE /\ vms' = vms
            /\ sweeps' = [sweeps EXCEPT ![k].todo = @ \ {v}]
    /\ UNCHANGED <<bms, nextBm, nextVm, pools, alerts, queue, dispatchQ, workers, reqs, notifications, settings, disks, down>>

cvh_alert(k) ==
    /\ sweeps[k].task = "check_vm_health"
    /\ sweeps[k].pc = "alert"
    /\ alerts' = Append(alerts, Alert("vm", sweeps[k].cur, "vm_down", "high"))
    /\ dispatchQ' = dispatchQ \cup {Len(alerts) + 1}
    /\ sweeps' = [sweeps EXCEPT ![k].pc = "probe", ![k].cur = 0]
    /\ UNCHANGED <<bms, nextBm, vms, nextVm, pools, queue, workers, reqs, notifications, settings, disks, down>>

\* The loop is over: db.close() and the task returns.
sweep_end(k) ==
    /\ sweeps[k].task # "idle"
    /\ sweeps[k].pc = "probe"
    /\ sweeps[k].todo = {}
    /\ sweeps' = [sweeps EXCEPT ![k] = NoSweep]
    /\ UNCHANGED <<bms, nextBm, vms, nextVm, pools, alerts, queue, dispatchQ, workers, reqs, notifications, settings, disks, down>>

\* The worker process running a sweep is killed: what it committed stays,
\* the rest of the task is lost.
worker_crash(k) ==
    /\ sweeps[k].task # "idle"
    /\ sweeps[k].pc = "alert" \/ sweeps[k].todo # {}
    /\ sweeps' = [sweeps EXCEPT ![k] = NoSweep]
    /\ UNCHANGED <<bms, nextBm, vms, nextVm, pools, alerts, queue, dispatchQ, workers, reqs, notifications, settings, disks, down>>

---------------------------------------------------------------------------
\* Notification dispatch

\* Settings() reads the environment once, when the processes start; until
\* then the fields have their defaults.
load_settings(c) ==
    /\ settings = NoSettings
    /\ \A w \in Workers : workers[w].task = "idle"
    /\ settings' = c
    /\ UNCHANGED <<bms, nextBm, vms, nextVm, pools, alerts, queue, dispatchQ, workers, sweeps, reqs,
                   notifications, disks, down>>

\* send_alert_notification.delay(alert_id) by an operator: Dispatch is invoked
\* again for an alert, or for an id that no alert has.
redispatch(a) ==
    /\ a \notin dispatchQ
    /\ dispatchQ' = dispatchQ \cup {a}
    /\ UNCHANGED <<bms, nextBm, vms, nextVm, pools, alerts, queue, workers, sweeps, reqs,
                   notifications, settings, disks, down>>

SlackConfigured == settings.SLACK_WEBHOOK_URL

JiraConfiguredAny == settings.JIRA_URL \/ settings.JIRA_USERNAME \/ settings.JIRA_API_TOKEN

JiraConfigured == settings.JIRA_URL /\ settings.JIRA_USERNAME /\ settings.JIRA_API_TOKEN

\* The alert is looked up; one channel task is enqueued per configured channel.
send_alert_notification(w, a) ==
    /\ workers[w].task = "idle"
    /\ a \in dispatchQ
    /\ QueueLen + 2 <= MaxQueue
    /\ dispatchQ' = dispatchQ \ {a}
    /\ queue' = IF a \notin 1..Len(alerts) THEN queue
                ELSE LET q1 == IF SlackConfigured THEN Enqueue(queue, SlackTask(a)) ELSE queue
                     IN IF JiraConfigured THEN Enqueue(q1, JiraTask(a)) ELSE q1
    /\ UNCHANGED <<bms, nextBm, vms, nextVm, pools, alerts, workers, sweeps, reqs,
                   notifications, settings, disks, down>>

InsertOrReuse(rows, row) ==
    IF \E n \in 1..Len(rows) : rows[n].alert_id = row.alert_id /\ rows[n].channel = row.channel
    THEN [n \in 1..Len(rows) |->
             IF rows[n].alert_id = row.alert_id /\ rows[n].channel = row.channel
             THEN row ELSE rows[n]]
    ELSE Append(rows, row)

\* db.add(notification); db.commit(): a new row each time
Insert(rows, row) == Append(rows, row)

\* A channel task up to its first commit: the alert is looked up and the
\* Notification row is inserted as pending.
notification_create(w, t, ch) ==
    /\ workers[w].task = "idle"
    /\ BagIn(t, queue)
    /\ Len(notifications) < MaxNotif
    /\ queue' = Dequeue(queue, t)
    /\ IF t.arg \notin 1..Len(alerts)
       THEN UNCHANGED <<notifications, workers>>
       ELSE /\ notifications' = Insert(notifications, Notification(t.arg, ch))
            /\ workers' = [workers EXCEPT ![w] =
                   [Idle EXCEPT !.task = t.name, !.nid = Len(notifications) + 1]]
    /\ UNCHANGED <<bms, nextBm, vms, nextVm, pools, alerts, dispatchQ, sweeps, reqs, settings, disks, down>>

send_slack_notification(w, a) == notification_create(w, SlackTask(a), "slack")

send_jira_notification(w, a) == notification_create(w, JiraTask(a), "jira")

\* The status code that the channel task takes for a delivery
SuccessCode(task) == IF task = "send_slack_notification" THEN 200 ELSE 201

\* client.post(...) returns a response or raises.
notification_post(w, r) ==
    /\ workers[w].task \in {"send_slack_notification", "send_jira_notification"}
    /\ workers[w].resp = NoResp
    /\ workers' = [workers EXCEPT ![w].resp = r]
    /\ UNCHANGED <<bms, nextBm, vms, nextVm, pools, alerts, queue, dispatchQ, sweeps, reqs,
                   notifications, settings, disks, down>>

FinalizedKeepsPending(row, task, r) == row

\* What the task commits for the row after the POST.  On the success code
\* the task sets status 'sent' and then evaluates func.now(): the module
\* never imports func, the NameError lands in the except branch, which sets
\* 'failed' with the text of the exception and commits.
Finalized(row, task, r) ==
    IF r = 0
    THEN [row EXCEPT !.status = "failed", !.error_message = "exception"]
    ELSE IF r = SuccessCode(task)
    THEN [row EXCEPT !.status = "failed", !.error_message = "name 'func' is not defined"]
    ELSE [row EXCEPT !.status = "failed", !.error_message = "HTTP"]

\* The second commit of a channel task, and its return.
notification_finalize(w) ==
    /\ workers[w].task \in {"send_slack_notification", "send_jira_notification"}
    /\ workers[w].resp # NoResp
    /\ notifications' = [notifications EXCEPT ![workers[w].nid] =
                            Finalized(@, workers[w].task, workers[w].resp)]
    /\ workers' = [workers EXCEPT ![w] = Idle]
    /\ UNCHANGED <<bms, nextBm, vms, nextVm, pools, alerts, queue, dispatchQ, sweeps, reqs, settings, disks, down>>

---------------------------------------------------------------------------
\* StorageManager (vm-provisioning): the VM tier of the shared storage

storage_limits ==
    [total |-> 1800, vm_storage |-> 1000, k8s_storage |-> 500,
     monitoring |-> 200, backups |-> 80, logs |-> 20]

DiskIds == 1..MaxDisks

\* GB that a guest writes into its image in one step
ChunkGb == 250

\* sizes asked of resize_vm_storage
ResizeSizes == {500, 750, 1000}

\* A fresh qcow2 image: size_gb is its virtual size, written the GB that the
\* file occupies on disk (the image is sparse: nothing but metadata at first).
Disk(size_gb) == [size_gb |-> size_gb, written |-> 0]

RECURSIVE DiskSum(_, _, _)
DiskSum(ds, S, attr) ==
    IF S = {} THEN 0
    ELSE LET x == CHOOSE y \in S : TRUE
         IN ds[x][attr] + DiskSum(ds, S \ {x}, attr)

\* get_storage_usage()["vm_storage"]: "du -s" of the tier's directory, that
\* is what the files occupy, in GB; available_gb is the limit minus that.
get_storage_usage ==
    LET used_gb == DiskSum(disks, DOMAIN disks, "written")
    IN [used_gb |-> used_gb,
        limit_gb |-> storage_limits.vm_storage,
        available_gb |-> storage_limits.vm_storage - used_gb]

\* usage_percentage of a tier: round((used_gb / limit) * 100, 2); the usages
\* of the model are multiples of ChunkGb, for which the quotient is exact.
usage_percentage(used_gb, limit_gb) == (used_gb * 100) \div limit_gb

\* usage percentages of the root filesystem that "df -BG /" may report
DfUsages == {50, 91, 96}

\* What the loop over the tiers of get_storage_health records for a tier
TierFinding(pct) ==
    IF pct > 90 THEN "warning"
    ELSE IF pct > 95 THEN "critical"
    ELSE "none"

\* What get_storage_health records for the total
TotalFinding(pct) ==
    IF pct > 95 THEN "critical"
    ELSE IF pct > 90 THEN "warning"
    ELSE "none"

\* get_storage_health() when df reports total_usage percent: the status and
\* the subjects of the warnings and errors.  The VM tier is the tier of the
\* model; the directories of the other tiers are not there and are skipped.
get_storage_health(total_usage) ==
    LET found == [vm_storage |-> TierFinding(usage_percentage(get_storage_usage.used_gb,
                                                              get_storage_usage.limit_gb)),
                  total |-> TotalFinding(total_usage)]
    IN [status |-> IF \E n \in DOMAIN found : found[n] = "critical" THEN "critical" ELSE "healthy",
        warnings |-> {n \in DOMAIN found : found[n] = "warning"},
        errors |-> {n \in DOMAIN found : found[n] = "critical"}]

\* The request fails the check of allocate_vm_storage when the measured
\* available_gb is below it.
Insufficient(available_gb, size_gb) == available_gb < size_gb

\* allocate_vm_storage(vm_id, size_gb) that returns True: the check passes
\* and qemu-img create writes a new image over whatever the directory held.
\* A call that returns False has created at most an empty directory.
allocate_vm_storage(vm_id, size_gb) ==
    /\ ~Insufficient(get_storage_usage.available_gb, size_gb)
    /\ disks' = (vm_id :> Disk(size_gb)) @@ disks
    /\ disks' # disks
    /\ UNCHANGED backend

\* shutil.rmtree of the VM's directory
deallocate_vm_storage(vm_id) ==
    /\ vm_id \in DOMAIN disks
    /\ disks' = [x \in DOMAIN disks \ {vm_id} |-> disks[x]]
    /\ UNCHANGED backend

\* The result of int(line.split()[2].replace('G', '')) on the 'virtual size'
\* line of "qemu-img info" for an image of size_gb GB.  qemu-img prints the
\* size in the largest unit that keeps it below 1000 ("750 GiB", "750G"), so
\* from 1000 GB on the field is a decimal number of TiB ("0.977", "1.0T")
\* and int() raises ValueError.
ParsedSize(size_gb) ==
    IF size_gb < 1000 THEN [ok |-> TRUE, val |-> size_gb] ELSE [ok |-> FALSE, val |-> 0]

\* resize_vm_storage(vm_id, new_size_gb) that returns True: the disk exists,
\* its current size is parsed, the growth is not above the measured
\* available_gb, and qemu-img resize accepts it (it refuses to shrink an
\* image without --shrink).
resize_vm_storage(vm_id, new_size_gb) ==
    /\ vm_id \in DOMAIN disks
    /\ ParsedSize(disks[vm_id].size_gb).ok
    /\ LET current_size_gb == ParsedSize(disks[vm_id].size_gb).val
           size_diff == new_size_gb - current_size_gb
       IN /\ ~(size_diff > get_storage_usage.available_gb)
          /\ size_diff > 0
    /\ disks' = [disks EXCEPT ![vm_id].size_gb = new_size_gb]
    /\ UNCHANGED backend

\* The guest of a VM writes into its disk: the image file grows, up to its
\* virtual size.
guest_write(vm_id) ==
    /\ vm_id \in DOMAIN disks
    /\ disks[vm_id].written < disks[vm_id].size_gb
    /\ disks' = [disks EXCEPT ![vm_id].written =
                    IF @ + ChunkGb > disks[vm_id].size_gb THEN disks[vm_id].size_gb ELSE @ + ChunkGb]
    /\ UNCHANGED backend

---------------------------------------------------------------------------

Init ==
    /\ bms = <<>>
    /\ nextBm = 1
    /\ vms = <<>>
    /\ nextVm = 1
    /\ pools = <<>>
    /\ alerts = <<>>
    /\ queue = EmptyBag
    /\ dispatchQ = {}
    /\ workers = [w \in Workers |-> Idle]
    /\ sweeps = [k \in Sweeps |-> NoSweep]
    /\ reqs = [r \in Reqs |-> NoReq]
    /\ notifications = <<>>
    /\ settings = NoSettings
    /\ disks = <<>>
    /\ down = {}

\* Operator requests on baremetals
NextBaremetal ==
    \/ \E s \in BmSizes : create_baremetal(s[1], s[2])
    \/ \E b \in DOMAIN bms, st \in BmStatusSet \cup {""}, size \in BmSizes \cup {<<>>} :
           update_baremetal(b, st, size)
    \/ \E b \in DOMAIN bms : delete_baremetal(b)

\* Ledger recompute on the Celery workers
NextLedger ==
    \/ \E w \in Workers : urp_read(w)
    \/ \E w \in Workers : urp_commit(w)

\* Placement, deletion and the provisioning tasks
NextPlacement ==
    \/ \E r \in Reqs, q \in VmReqs : create_vm_select(r, q[1], q[2])
    \/ \E r \in Reqs : create_vm_commit(r)
    \/ \E v \in DOMAIN vms : delete_vm(v)
    \/ \E w \in Workers, v \in 1..MaxVm : create_vm_task(w, v)
    \/ \E w \in Workers, v \in 1..MaxVm : delete_vm_task(w, v)

\* Operator requests on an existing VM
NextVmOps ==
    \/ \E v \in DOMAIN vms, size \in VmSizes \cup {<<>>}, st \in VmStatus \cup {""} :
           update_vm(v, size, st)
    \/ \E v \in DOMAIN vms : start_vm(v)
    \/ \E v \in DOMAIN vms : stop_vm(v)

\* Baremetal health sweeps, possibly overlapping, and worker crashes
NextMonitor ==
    \/ \E k \in Sweeps : cbh_start(k)
    \/ \E k \in Sweeps, b \in 1..MaxBm, h \in BOOLEAN : cbh_probe(k, b, h)
    \/ \E k \in Sweeps : cbh_alert(k)
    \/ \E k \in Sweeps : sweep_end(k)
    \/ \E k \in Sweeps : worker_crash(k)

Next == NextBaremetal \/ NextLedger \/ NextPlacement

\* Fleet operation: operators, placements, the ledger and the provisioning tasks
Spec == Init /\ [][Next]_vars

NextLifecycle == NextBaremetal \/ NextLedger \/ NextPlacement \/ NextVmOps

\* The life of a VM under operator requests
SpecVm == Init /\ [][NextLifecycle]_vars

NextSweeps ==
    \/ \E s \in BmSizes : create_baremetal(s[1], s[2])
    \/ NextLedger
    \/ NextMonitor

\* The health monitor alone: baremetals are added, nobody else changes a status
SpecSweeps == Init /\ [][NextSweeps]_vars

\* One baremetal, and one sweep at a time whose probe fails: one alert
NextAlerts ==
    \/ \E s \in BmSizes : nextBm = 1 /\ create_baremetal(s[1], s[2])
    \/ \E w \in Workers : urp_read(w)
    \/ cbh_start(1)
    \/ \E b \in 1..MaxBm : cbh_probe(1, b, FALSE)
    \/ cbh_alert(1)
    \/ sweep_end(1)

\* Dispatch and the channel tasks
NextDispatch ==
    \/ \E c \in Configs : load_settings(c)
    \/ \E a \in DispatchIds : redispatch(a)
    \/ \E w \in Workers, a \in DispatchIds : send_alert_notification(w, a)
    \/ \E w \in Workers, a \in DispatchIds : send_slack_notification(w, a)
    \/ \E w \in Workers, a \in DispatchIds : send_jira_notification(w, a)
    \/ \E w \in Workers, r \in Responses : notification_post(w, r)
    \/ \E w \in Workers : notification_finalize(w)

NextNotify == NextAlerts \/ NextDispatch

\* A channel task that created its row posts, and finalizes once the POST
\* has returned or raised.
FairNotify ==
    \A w \in Workers : /\ WF_vars(\E r \in Responses : notification_post(w, r))
                        /\ WF_vars(notification_finalize(w))

\* Operator status changes next to the sweeps
NextOperated ==
    \/ NextSweeps
    \/ \E b \in DOMAIN bms, st \in BmStatusSet : update_baremetal(b, st, <<>>)

\* The health monitor while operators put baremetals in and out of maintenance
SpecMonitor == Init /\ [][NextOperated]_vars

\* VM health sweeps over the placed VMs
NextVmMonitor ==
    \/ \E v \in DOMAIN vms : guest_stops(v)
    \/ \E k \in Sweeps : cvh_start(k)
    \/ \E k \in Sweeps, v \in 1..MaxVm : cvh_probe(k, v)
    \/ \E k \in Sweeps : sweep_end(k)

\* Fleet operation with the VM health monitor
SpecVmHealth == Init /\ [][Next \/ NextVmMonitor]_vars

\* One baremetal that goes in and out of maintenance, placements, deletions
NextDelete ==
    \/ \E z \in BmSizes : nextBm = 1 /\ create_baremetal(z[1], z[2])
    \/ \E b \in DOMAIN bms, st \in BmStatusSet : update_baremetal(b, st, <<>>)
    \/ NextLedger
    \/ \E r \in Reqs, q \in VmReqs : create_vm_select(r, q[1], q[2])
    \/ \E r \in Reqs : create_vm_commit(r)
    \/ \E v \in DOMAIN vms, z \in VmSizes : update_vm(v, z, "")
    \/ \E v \in DOMAIN vms : delete_vm(v)
    \/ \E w \in Workers, v \in 1..MaxVm : create_vm_task(w, v)
    \/ \E w \in Workers, v \in 1..MaxVm : delete_vm_task(w, v)

\* A started update_resource_pool run ends, and a queued delete_vm_task is
\* taken by a worker: the queue is served in order, no task waits forever.
FairDelete ==
    /\ \A w \in Workers : WF_vars(urp_commit(w))
    /\ \A v \in 1..MaxVm : SF_vars(\E w \in Workers : delete_vm_task(w, v))

\* Deletion of VMs
SpecDelete == Init /\ [][NextDelete]_vars /\ FairDelete

\* create_vm_task when the provisioning fails
NextProvision ==
    \/ \E w \in Workers, v \in 1..MaxVm : create_vm_task_raises(w, v)
    \/ \E w \in Workers : create_vm_task_alert(w)
    \/ \E w \in Workers : create_vm_task_crash(w)

\* Fleet operation with provisioning failures
SpecProvision == Init /\ [][Next \/ NextProvision]_vars

\* Baremetal health sweeps while operators add and delete baremetals; no
\* worker is lost
NextFleetSweeps ==
    \/ \E z \in BmSizes : create_baremetal(z[1], z[2])
    \/ \E b \in DOMAIN bms : delete_baremetal(b)
    \/ NextLedger
    \/ \E k \in Sweeps : cbh_start(k)
    \/ \E k \in Sweeps, b \in 1..MaxBm, h \in BOOLEAN : cbh_probe(k, b, h)
    \/ \E k \in Sweeps : cbh_alert(k)
    \/ \E k \in Sweeps : sweep_end(k)

\* The health monitor over a fleet that changes
SpecFleetSweeps == Init /\ [][NextFleetSweeps]_vars

\* One sweep at a time over a fleet whose operators change statuses
NextProbes ==
    \/ \E z \in BmSizes : create_baremetal(z[1], z[2])
    \/ \E b \in DOMAIN bms, st \in BmStatusSet : update_baremetal(b, st, <<>>)
    \/ \E w \in Workers : urp_read(w)
    \/ cbh_start(1)
    \/ \E b \in 1..MaxBm, h \in BOOLEAN : cbh_probe(1, b, h)
    \/ cbh_alert(1)
    \/ sweep_end(1)

\* Healthy and failing probes of one sweep
SpecProbes == Init /\ [][NextProbes]_vars

\* A deployment whose Celery worker runs one more process than Workers
InitConcurrent ==
    /\ bms = <<>>
    /\ nextBm = 1
    /\ vms = <<>>
    /\ nextVm = 1
    /\ pools = <<>>
    /\ alerts = <<>>
    /\ queue = EmptyBag
    /\ dispatchQ = {}
    /\ workers = [w \in 1..(MaxWorkers + 1) |-> Idle]
    /\ sweeps = [k \in Sweeps |-> NoSweep]
    /\ reqs = [r \in Reqs |-> NoReq]
    /\ notifications = <<>>
    /\ settings = NoSettings
    /\ disks = <<>>
    /\ down = {}

\* Recomputes on concurrent worker processes while operators change the fleet
NextConcurrent ==
    \/ \E z \in BmSizes : create_baremetal(z[1], z[2])
    \/ \E b \in DOMAIN bms, st \in BmStatusSet : update_baremetal(b, st, <<>>)
    \/ \E w \in DOMAIN workers : urp_read(w)
    \/ \E w \in DOMAIN workers : urp_commit(w)

\* The Ledger under concurrent recomputes
SpecConcurrent == InitConcurrent /\ [][NextConcurrent]_vars

\* sizes asked of allocate_vm_storage in a state: what remains of the tier
\* as get_storage_usage reports it, one GB more, and half the tier
AllocSizes ==
    {g \in {get_storage_usage.available_gb, get_storage_usage.available_gb + 1, 500} : g >= 0}

NextStorage ==
    \/ \E v \in DiskIds, g \in AllocSizes : allocate_vm_storage(v, g)
    \/ \E v \in DiskIds : deallocate_vm_storage(v)
    \/ \E v \in DiskIds, g \in ResizeSizes : resize_vm_storage(v, g)
    \/ \E v \in DiskIds : guest_write(v)

\* The storage manager of the provisioning service
SpecStorage == Init /\ [][NextStorage]_vars

\* The notification pipeline
SpecNotify == Init /\ [][NextNotify]_vars /\ FairNotify

---------------------------------------------------------------------------
\* Vocabulary of the properties

Max0(x) == IF x < 0 THEN 0 ELSE x

\* No recompute is queued or running
LedgerSettled ==
    /\ ~BagIn(UrpTask, queue)
    /\ \A w \in Workers : workers[w].task # "update_resource_pool"

\* This step is the return of an update_resource_pool run: the commit, or
\* the except branch (the task leaves the queue and no worker keeps it).
UrpReturns ==
    \/ /\ BagIn(UrpTask, queue)
       /\ queue' = Dequeue(queue, UrpTask)
       /\ workers' = workers
    \/ \E w \in Workers : /\ workers[w].task = "update_resource_pool"
                          /\ workers'[w].task = "idle"

\* This step is the selection of a baremetal by the create_vm request r
Decides(r) == reqs[r] = NoReq /\ reqs'[r] # NoReq

LiveVms(rows) == {v \in DOMAIN rows : rows[v].status \notin {"failed", "deleting"}}

AlertsFor(rtype, rid) ==
    {i \in 1..Len(alerts) : /\ alerts[i].resource_type = rtype
                            /\ alerts[i].resource_id = rid
                            /\ ~alerts[i].is_resolved}

---------------------------------------------------------------------------
\* C1: every persisted ResourcePool row has available_X <= total_X for
\* X in cpu, memory, storage, iops, in every reachable state.
C1_AvailableWithinTotal ==
    \A i \in 1..Len(pools) :
        /\ pools[i].available_cpu_cores <= pools[i].total_cpu_cores
        /\ pools[i].available_memory_gb <= pools[i].total_memory_gb
        /\ pools[i].available_storage_gb <= pools[i].total_storage_gb
        /\ pools[i].available_iops <= pools[i].total_iops

\* A recompute has persisted the pool, the fleet has an active baremetal and
\* a VM, and every recompute has run.
C1_Witness ==
    /\ Len(pools) >= 1
    /\ ActiveBms # {}
    /\ DOMAIN vms # {}
    /\ LedgerSettled

\* C2 (as claimed): with one active baremetal of 8 CPU / 32 GB, no VM, no
\* placement under way and every recompute completed, create_vm answers a
\* request for (4 CPU, 16 GB) by selecting a baremetal.
C2_FirstPlacementSucceeds ==
    ( /\ LedgerSettled
      /\ DOMAIN vms = {}
      /\ Selecting = {}
      /\ Cardinality(DOMAIN bms) = 1
      /\ \A b \in DOMAIN bms : /\ bms[b].status = "active"
                               /\ bms[b].cpu_cores = 8 /\ bms[b].memory_gb = 32 )
    => \A o \in PlacementOutcomes(4, 16384) : o.outcome = "Selected"

\* C3 (as claimed): when update_resource_pool returns, the Ledger's available
\* CPU and memory equal its total minus the requests of the VMs that are not
\* failed and not deleting, floored at zero.
C3_AvailableIsTotalMinusUsed ==
    [][UrpReturns =>
          /\ Len(pools') >= 1
          /\ pools'[1].available_cpu_cores =
                Max0(pools'[1].total_cpu_cores - SumField(vms', LiveVms(vms'), "cpu_cores"))
          /\ pools'[1].available_memory_gb * 1024 =
                Max0(pools'[1].total_memory_gb * 1024
                     - SumField(vms', LiveVms(vms'), "memory_mb"))]_vars

\* C4 (as claimed): when update_resource_pool returns, the Ledger totals are
\* the sums over exactly the active baremetals, also when there is one.
C4_TotalsAreActiveSums ==
    [][UrpReturns =>
          LET active == {b \in DOMAIN bms' : bms'[b].status = "active"}
          IN /\ Len(pools') >= 1
             /\ pools'[1].total_cpu_cores = SumField(bms', active, "cpu_cores")
             /\ pools'[1].total_memory_gb = SumField(bms', active, "memory_gb")]_vars

\* C5 (as claimed): with nobody but the monitor changing a status, a
\* baremetal has at most one unresolved critical baremetal alert, whatever
\* the number of sweeps and however they overlap.
C5_OneAlertPerFailure ==
    \A b \in DOMAIN bms :
        Cardinality({i \in AlertsFor("baremetal", b) : alerts[i].severity = "critical"}) <= 1

\* C6 (as claimed): with nobody but the monitor changing a status, a
\* baremetal is failed exactly when it has its alert, except while the
\* worker that failed it is still about to write the alert.
C6_StatusAndAlertTogether ==
    \A b \in DOMAIN bms :
        LET writing == \E k \in Sweeps : /\ sweeps[k].task = "check_baremetal_health"
                                         /\ sweeps[k].pc = "alert"
                                         /\ sweeps[k].cur = b
        IN /\ (bms[b].status = "failed" /\ ~writing) => AlertsFor("baremetal", b) # {}
           /\ AlertsFor("baremetal", b) # {} => bms[b].status = "failed"

\* C7 (as claimed): in every state of the store, create_vm answers a request
\* with insufficient capacity when the Ledger's available CPU or memory is
\* below the request (an absent Ledger reads as zero capacity, as
\* get_resource_pool reports it), else with no-eligible-node when no active
\* baremetal is large enough, else by selecting a baremetal.
C7_ThreeOutcomes ==
    \A q \in VmReqs : \A o \in PlacementOutcomes(q[1], q[2]) :
        LET availCpu == IF Len(pools) = 0 THEN 0 ELSE pools[1].available_cpu_cores
            availMem == IF Len(pools) = 0 THEN 0 ELSE pools[1].available_memory_gb
            fits(b) == /\ bms[b].status = "active"
                       /\ q[1] <= bms[b].cpu_cores
                       /\ q[2] <= 1024 * bms[b].memory_gb
        IN IF q[1] > availCpu \/ q[2] > 1024 * availMem
           THEN o.outcome \in {"InsufficientCpu", "InsufficientMemory"}
           ELSE IF ~\E b \in DOMAIN bms : fits(b)
           THEN o.outcome = "NoSuitableBaremetal"
           ELSE o.outcome = "Selected"

\* C7 (amended): without a ResourcePool row create_vm answers "Resource pool
\* not initialized"; with one, the answer is decided in the claimed order:
\* insufficient capacity, no eligible node, success.
C7_FourOutcomes ==
    \A q \in VmReqs : \A o \in PlacementOutcomes(q[1], q[2]) :
        LET fits(b) == /\ bms[b].status = "active"
                       /\ q[1] <= bms[b].cpu_cores
                       /\ q[2] <= 1024 * bms[b].memory_gb
        IN IF Len(pools) = 0
           THEN o.outcome = "PoolNotInitialized"
           ELSE IF q[1] > pools[1].available_cpu_cores
                   \/ q[2] > 1024 * pools[1].available_memory_gb
           THEN o.outcome \in {"InsufficientCpu", "InsufficientMemory"}
           ELSE IF ~\E b \in DOMAIN bms : fits(b)
           THEN o.outcome = "NoSuitableBaremetal"
           ELSE o.outcome = "Selected"

\* With the Ledger persisted and a VM already placed by create_vm, a request
\* for (4 CPU, 16 GB) is refused for insufficient capacity although an active
\* baremetal is large enough for it: the capacity check precedes the search.
C7_Witness ==
    /\ Len(pools) >= 1
    /\ DOMAIN vms # {}
    /\ \E b \in DOMAIN bms : /\ bms[b].status = "active"
                             /\ bms[b].cpu_cores >= 4
                             /\ bms[b].memory_gb * 1024 >= 16384
    /\ \A o \in PlacementOutcomes(4, 16384) : o.outcome = "InsufficientCpu"

\* C8: the baremetal chosen by create_vm is, when chosen, active and at least
\* as large as the request, and the VM row that create_vm inserts carries
\* that baremetal and that request.
C8_AssignedToEligible ==
    [][/\ \A r \in Reqs : Decides(r) =>
              LET b == reqs'[r].bm
              IN /\ b \in DOMAIN bms
                 /\ bms[b].status = "active"
                 /\ bms[b].cpu_cores >= reqs'[r].cpu
                 /\ bms[b].memory_gb * 1024 >= reqs'[r].mem
       /\ \A v \in DOMAIN vms' \ DOMAIN vms :
              \E r \in Reqs : /\ reqs[r] # NoReq
                              /\ reqs'[r] = NoReq
                              /\ vms'[v].baremetal_id = reqs[r].bm
                              /\ vms'[v].cpu_cores = reqs[r].cpu
                              /\ vms'[v].memory_mb = reqs[r].mem]_vars

\* create_vm has placed a VM while another baremetal of the fleet, large
\* enough for it, was not active.
C8_Witness ==
    \E v \in DOMAIN vms :
        /\ vms[v].status = "creating"
        /\ vms[v].baremetal_id \in DOMAIN bms
        /\ \E b \in DOMAIN bms \ {vms[v].baremetal_id} :
               /\ bms[b].status # "active"
               /\ bms[b].cpu_cores >= vms[v].cpu_cores

\* C9 (as claimed): create_vm_task never leaves a VM running on a baremetal
\* whose running VMs then request more CPU or memory than it has.
C9_CreationFailsClosed ==
    [][\A v \in DOMAIN vms :
          ( /\ BagIn(CreateVmTask(v), queue)
            /\ queue' = Dequeue(queue, CreateVmTask(v))
            /\ v \in DOMAIN vms'
            /\ vms'[v].status = "running"
            /\ vms'[v].baremetal_id \in DOMAIN bms' )
          => LET b == vms'[v].baremetal_id
                 running == {x \in DOMAIN vms' : /\ vms'[x].baremetal_id = b
                                                /\ vms'[x].status = "running"}
             IN /\ SumField(vms', running, "cpu_cores") <= bms'[b].cpu_cores
                /\ SumField(vms', running, "memory_mb") <= bms'[b].memory_gb * 1024]_vars

\* C10 (as claimed): every step that adds or removes a baremetal, changes a
\* baremetal's status, or creates or deletes a VM row puts one
\* update_resource_pool run on the queue.
C10_MutationTriggersRecompute ==
    [][( \/ DOMAIN bms' # DOMAIN bms
         \/ \E b \in DOMAIN bms \cap DOMAIN bms' : bms'[b].status # bms[b].status
         \/ DOMAIN vms' # DOMAIN vms )
       => CopiesIn(UrpTask, queue') = CopiesIn(UrpTask, queue) + 1]_vars

---------------------------------------------------------------------------
\* Vocabulary of the notification properties

ChannelTasks == {"send_slack_notification", "send_jira_notification"}

RowsFor(rows, a, ch) ==
    Cardinality({n \in 1..Len(rows) : rows[n].alert_id = a /\ rows[n].channel = ch})

\* This step is a run of send_alert_notification for the alert id a
Dispatches(a) == a \in dispatchQ /\ a \notin dispatchQ'

\* C11 (as claimed): a channel task whose POST came back with the channel's
\* success code finalizes its Notification row as sent, and one whose POST
\* failed finalizes it as failed, whatever the other channel's task does.
C11_ChannelsIndependent ==
    [][\A w \in Workers :
          ( /\ workers[w].task \in ChannelTasks
            /\ workers[w].resp # NoResp
            /\ workers'[w].task = "idle" )
          => notifications'[workers[w].nid].status =
                IF workers[w].resp = SuccessCode(workers[w].task) THEN "sent" ELSE "failed"]_vars

\* C12: a run of send_alert_notification for an existing alert enqueues one
\* channel task for Slack iff the webhook URL is set and one for JIRA iff
\* URL, username and token are all set, and writes no row itself; a run for
\* an id that no alert has enqueues nothing; each channel task inserts
\* exactly one pending row for its alert and channel, and rows are inserted
\* by channel tasks only.
C12_OneRowPerConfiguredChannel ==
    [][/\ \A a \in DispatchIds : Dispatches(a) =>
              LET exists == a \in 1..Len(alerts)
                  slack == exists /\ settings.SLACK_WEBHOOK_URL
                  jira == /\ exists
                          /\ settings.JIRA_URL /\ settings.JIRA_USERNAME /\ settings.JIRA_API_TOKEN
              IN /\ notifications' = notifications
                 /\ CopiesIn(SlackTask(a), queue') =
                       CopiesIn(SlackTask(a), queue) + (IF slack THEN 1 ELSE 0)
                 /\ CopiesIn(JiraTask(a), queue') =
                       CopiesIn(JiraTask(a), queue) + (IF jira THEN 1 ELSE 0)
       /\ \A a \in DispatchIds :
              /\ CopiesIn(SlackTask(a), queue') < CopiesIn(SlackTask(a), queue)
                    => notifications' = Append(notifications,
                           [alert_id |-> a, channel |-> "slack",
                            status |-> "pending", error_message |-> ""])
              /\ CopiesIn(JiraTask(a), queue') < CopiesIn(JiraTask(a), queue)
                    => notifications' = Append(notifications,
                           [alert_id |-> a, channel |-> "jira",
                            status |-> "pending", error_message |-> ""])
       /\ Len(notifications') # Len(notifications)
              => BagCardinality(queue') = BagCardinality(queue) - 1]_vars

\* With Slack configured and a JIRA section that lacks its token, the alert
\* was dispatched and every task has run: one Slack row, no JIRA row.
C12_Witness ==
    /\ settings.SLACK_WEBHOOK_URL /\ settings.JIRA_URL /\ ~settings.JIRA_API_TOKEN
    /\ Len(alerts) >= 1
    /\ dispatchQ = {}
    /\ queue = EmptyBag
    /\ RowsFor(notifications, 1, "slack") = 1
    /\ RowsFor(notifications, 1, "jira") = 0

\* C13: a Notification row is inserted as pending, its only changes are
\* pending -> sent and pending -> failed, failed comes with an error message,
\* and every pending row is eventually sent or failed.
C13_PendingThenFinalized ==
    /\ [][/\ Len(notifications') >= Len(notifications)
          /\ \A n \in 1..Len(notifications') :
                IF n > Len(notifications)
                THEN notifications'[n].status = "pending"
                ELSE \/ notifications'[n] = notifications[n]
                     \/ /\ notifications[n].status = "pending"
                        /\ notifications'[n].status \in {"sent", "failed"}
                        /\ notifications'[n].status = "failed"
                              => notifications'[n].error_message # ""]_vars
    /\ \A n \in 1..MaxNotif :
          (Len(notifications) >= n /\ notifications[n].status = "pending")
             ~> (Len(notifications) >= n /\ notifications[n].status \in {"sent", "failed"})

\* A row has been finalized as failed with its error while another row is
\* still pending.
C13_Witness ==
    /\ \E n \in 1..Len(notifications) : /\ notifications[n].status = "failed"
                                        /\ notifications[n].error_message = "HTTP"
    /\ \E n \in 1..Len(notifications) : notifications[n].status = "pending"

\* C14: a row that is sent or failed never changes again and is never
\* removed, and for every alert and channel the number of rows plus the
\* number of queued channel tasks grows by exactly one with each run of
\* send_alert_notification that has the channel configured, and never
\* otherwise: k dispatches make k rows.
C14_FreshRowPerDispatch ==
    [][/\ \A n \in 1..Len(notifications) :
              notifications[n].status \in {"sent", "failed"}
                 => /\ n <= Len(notifications')
                    /\ notifications'[n] = notifications[n]
       /\ \A a \in DispatchIds :
              LET ran == Dispatches(a) /\ a \in 1..Len(alerts)
              IN /\ RowsFor(notifications', a, "slack") + CopiesIn(SlackTask(a), queue') =
                       RowsFor(notifications, a, "slack") + CopiesIn(SlackTask(a), queue)
                       + (IF ran /\ settings.SLACK_WEBHOOK_URL THEN 1 ELSE 0)
                 /\ RowsFor(notifications', a, "jira") + CopiesIn(JiraTask(a), queue') =
                       RowsFor(notifications, a, "jira") + CopiesIn(JiraTask(a), queue)
                       + (IF ran /\ settings.JIRA_URL /\ settings.JIRA_USERNAME
                             /\ settings.JIRA_API_TOKEN THEN 1 ELSE 0)]_vars

\* The alert was dispatched twice with Slack configured: two finalized Slack
\* rows for it.
C14_Witness ==
    /\ Len(notifications) >= 2
    /\ \A n \in 1..2 : /\ notifications[n].alert_id = 1
                      /\ notifications[n].channel = "slack"
                      /\ notifications[n].status = "failed"

---------------------------------------------------------------------------
\* Vocabulary of the storage properties

\* GB reserved in the VM tier: the sizes of the disks allocated in it
Reserved == DiskSum(disks, DOMAIN disks, "size_gb")

\* C15 (as claimed): with r = limit_gb - used_gb as get_storage_usage reports
\* them, allocate_vm_storage refuses r + 1 GB, and a step in which it
\* allocates a new disk of exactly r GB leaves used_gb equal to limit_gb.
C15_AllocateBoundary ==
    [][LET r == get_storage_usage.limit_gb - get_storage_usage.used_gb
       IN /\ Insufficient(get_storage_usage.available_gb, r + 1)
          /\ \A v \in DiskIds :
                ( /\ v \notin DOMAIN disks
                  /\ v \in DOMAIN disks'
                  /\ disks'[v].size_gb = r )
                => get_storage_usage'.used_gb = get_storage_usage'.limit_gb]_vars

\* C16 (as claimed): the space reserved in the VM tier never exceeds the
\* tier's limit of 1000 GB, nor the aggregate limit of 1800 GB.
C16_ReservedWithinLimit ==
    /\ Reserved <= storage_limits.vm_storage
    /\ Reserved <= storage_limits.total

---------------------------------------------------------------------------
\* C17 (as claimed): a probe of the baremetal health monitor only ever meets
\* a baremetal that is active, and leaves its status as it is or sets it to
\* failed: baremetals in maintenance, inactive or failed are not probed, and
\* the monitor sets no baremetal to active.
C17_MonitorOnlyFailsActive ==
    [][\A k \in Sweeps : \A b \in DOMAIN bms :
          ( /\ sweeps[k].task = "check_baremetal_health"
            /\ sweeps[k].pc = "probe"
            /\ b \in sweeps[k].todo
            /\ sweeps'[k].task = "check_baremetal_health"
            /\ b \notin sweeps'[k].todo )
          => /\ bms[b].status = "active"
             /\ bms'[b].status \in {bms[b].status, "failed"}]_vars

---------------------------------------------------------------------------
---------------------------------------------------------------------------
\* Vocabulary of the placement properties

\* The current load of a baremetal: the VMs placed on it
Load(b) == Cardinality(VmsOf(b))

\* The baremetal the placement policy names for a request: eligible, of the
\* lowest load and, among those, of the lowest id
PolicyPick(cpu, mem) ==
    CHOOSE b \in Suitable(cpu, mem) :
        \A c \in Suitable(cpu, mem) :
            Load(b) < Load(c) \/ (Load(b) = Load(c) /\ b <= c)

\* C21 (as claimed): a create_vm request that selects a baremetal selects the
\* eligible baremetal of the lowest load and, among equals, of the lowest id,
\* so that the selection is a function of the request and the fleet state.
C21_PlacementDeterministic ==
    [][\A r \in Reqs :
          Decides(r) => reqs'[r].bm = PolicyPick(reqs'[r].cpu, reqs'[r].mem)]_vars

\* C22 (as claimed): a VM that create_vm_task has left failed has exactly
\* one unresolved alert of resource_type vm and severity high, and that
\* alert was handed to the dispatch.
C22_FailureFeedsAlerts ==
    \A v \in DOMAIN vms :
        ( /\ vms[v].status = "failed"
          /\ \A w \in Workers : ~(workers[w].task = "create_vm_task" /\ workers[w].nid = v) )
        => /\ Cardinality({i \in AlertsFor("vm", v) : alerts[i].severity = "high"}) = 1
           /\ AlertsFor("vm", v) \subseteq dispatchQ

---------------------------------------------------------------------------
\* C23: a run of update_resource_pool that found the Ledger row and read
\* records for which the row already holds the snapshot (a run over the same
\* records wrote it) leaves the resource_pool table exactly as it is; and a
\* run that raises on the records it read writes nothing, however often it is
\* repeated.
C23_RecomputeIdempotent ==
    [][/\ \A w \in Workers :
             ( /\ workers[w].task = "update_resource_pool"
               /\ workers'[w].task = "idle"
               /\ workers[w].found
               /\ pools[1] = PoolRow(workers[w].tot) )
             => pools' = pools
       /\ (UrpReturns /\ \A w \in Workers : workers[w].task # "update_resource_pool")
             => pools' = pools]_vars

\* A second run over unchanged records is about to commit: the Ledger row
\* exists, the run found it, and its sums are those of the row.
C23_Witness ==
    \E w \in Workers :
        /\ workers[w].task = "update_resource_pool"
        /\ workers[w].found
        /\ Len(pools) = 1
        /\ pools[1] = PoolRow(workers[w].tot)

---------------------------------------------------------------------------
\* C24 (as claimed): a baremetal health sweep returns only when every
\* baremetal of its list that is still in the table has been processed:
\* an error on one target does not keep the sweep from the others.
C24_SweepVisitsEveryTarget ==
    [][\A k \in Sweeps :
          ( /\ sweeps[k].task = "check_baremetal_health"
            /\ sweeps'[k].task = "idle" )
          => sweeps[k].todo \cap DOMAIN bms' = {}]_vars

---------------------------------------------------------------------------
\* Vocabulary of the resize property

\* an instance directory that no VM of the model uses
FreshDisk == MaxDisks + 1

\* new sizes of the disk v that grow it: the sizes operators ask for, the
\* size that takes all of the measured remaining capacity, one GB more
GrownSizes(v) ==
    {g \in ResizeSizes \cup {disks[v].size_gb + get_storage_usage.available_gb,
                             disks[v].size_gb + get_storage_usage.available_gb + 1} :
        g > disks[v].size_gb}

\* C26 (as claimed): in every state of the tier, resize_vm_storage accepts a growth of a
\* disk by delta GB exactly when allocate_vm_storage accepts a new disk of
\* delta GB; a growth by all of the remaining capacity is accepted whenever
\* something remains, one GB more is refused.  (A refused call is no step:
\* it leaves the disks as they are.)
C26_ResizeAsFreshAllocation ==
    \A v \in DOMAIN disks :
        LET current_size_gb == disks[v].size_gb
            available_gb == get_storage_usage.available_gb
        IN /\ \A g \in GrownSizes(v) :
                 (ENABLED resize_vm_storage(v, g))
                     <=> (ENABLED allocate_vm_storage(FreshDisk, g - current_size_gb))
           /\ available_gb > 0 => ENABLED resize_vm_storage(v, current_size_gb + available_gb)
           /\ ~ENABLED resize_vm_storage(v, current_size_gb + available_gb + 1)

\* C27 (as claimed): a step that removes the backing store of a VM lowers
\* the used_gb of the tier by the size allocated to that VM, clamped at zero.
C27_DeallocateCredits ==
    [][\A v \in DiskIds :
          (v \in DOMAIN disks /\ v \notin DOMAIN disks')
          => get_storage_usage'.used_gb
                = Max0(get_storage_usage.used_gb - disks[v].size_gb)]_vars

---------------------------------------------------------------------------
\* C28 (as claimed): a VM in status deleting stays deleting, becomes failed,
\* or has its row removed; no step takes it to another status.
C28_DeletingIsFinal ==
    [][\A v \in DOMAIN vms :
          vms[v].status = "deleting"
          => \/ v \notin DOMAIN vms'
             \/ vms'[v].status \in {"deleting", "failed"}]_vars

\* C29 (as claimed): the resource_pool table never holds more than one row.
C29_SingleLedgerRow == Len(pools) <= 1

---------------------------------------------------------------------------
\* C30 (as claimed): get_storage_health reports status critical and an error
\* for the VM tier whenever the tier's usage is above 95%, and a warning for
\* it when the usage is above 90% and at most 95%; the total is classified
\* by the same thresholds; the status is healthy when nothing is critical.
C30_HealthThresholds ==
    \A t \in DfUsages :
        LET h == get_storage_health(t)
            pct == usage_percentage(get_storage_usage.used_gb, get_storage_usage.limit_gb)
        IN /\ pct > 95 => (h.status = "critical" /\ "vm_storage" \in h.errors)
           /\ (pct > 90 /\ pct <= 95) => "vm_storage" \in h.warnings \ h.errors
           /\ t > 95 => (h.status = "critical" /\ "total" \in h.errors)
           /\ (t > 90 /\ t <= 95) => "total" \in h.warnings \ h.errors
           /\ (pct <= 95 /\ t <= 95) => h.status = "healthy"

====
